---- MODULE Spec2Model ----
(***************************************************************************)
(* Model of the PDF Scanner App (app.py): the JSON record document         *)
(* data/history.json, the spreadsheet data/history.xlsx, the stored PDF    *)
(* files under Output/, and the request handlers that load the document,   *)
(* change their in-memory copy and write it back.  The Flask development   *)
(* server runs each request in its own thread, so handlers interleave at   *)
(* their file-system operations.                                           *)
(*                                                                         *)
(* Abstractions of values:                                                 *)
(*   - a filename is a sequence of one-character strings;                  *)
(*   - a timestamp is the number of its day (the time of day is dropped),  *)
(*     so timestamp[:10] is the day itself and string comparison of ISO    *)
(*     dates is integer comparison;                                        *)
(*   - money is counted in units of 0.0001 EUR, a rate is a fraction       *)
(*     <<numerator, denominator>>;                                         *)
(*   - an id (uuid4().hex[:12]) is a fresh number from a counter;          *)
(*   - an uploaded file's size is a whole number of MB.                    *)
(***************************************************************************)
EXTENDS Integers, Sequences, FiniteSets, TLC

\* ------------------------------------------------------------------ bounds
MaxIds == 2         \* ids that upload can hand out in one run
MaxDay == 2         \* last day the clock reaches
MaxBatch == 2       \* files of an upload batch that is processed
MaxBulk == 2        \* ids of one delete-bulk request

\* ------------------------------------------------------- program constants
MAX_FILES == 20
MAX_FILE_SIZE_MB == 100
COST_PER_PAGE == <<2000, 700 * 30>>
DefaultSettings == [monthly_income |-> 2000, daily_pages |-> 700, days_per_month |-> 30]

\* the threads of the server: the threaded server starts a thread for each
\* request that arrives; the serial server has the one worker, thread 1
Procs == {1, 2}

\* ------------------------------------------------------------------ inputs
PdfA == <<"a", ".", "p", "d", "f">>
PdfB == <<"b", ".", "P", "D", "F">>
TxtC == <<"c", ".", "t", "x", "t">>
NoName == <<>>

\* candidate files of an upload: name, size on disk, pages PdfReader finds
\* (0 when it fails to read the file)
StoredA == [filename |-> PdfA, size_mb |-> 1, pages |-> 7]
FileInputs ==
    { StoredA,
      [filename |-> PdfB, size_mb |-> 1, pages |-> 0],
      [filename |-> PdfA, size_mb |-> 101, pages |-> 7],
      [filename |-> TxtC, size_mb |-> 1, pages |-> 7],
      [filename |-> NoName, size_mb |-> 1, pages |-> 7] }

\* a request that carries no 'files' part has 0 files; one with more than
\* MAX_FILES files is answered before any file is read
BatchSizes == 0 .. MaxBatch \cup {MAX_FILES + 1}

NoDate == 0             \* a bound that is absent (None) or the empty string
DateInputs == 0 .. MaxDay + 1
IdInputs == 1 .. MaxIds
BulkInputs == UNION { [1 .. n -> IdInputs] : n \in 0 .. MaxBulk }
SearchInputs == { <<>>, <<"A">> }    \* no search, or the text "A"

\* JSON values of a settings body
JAbsent == [t |-> "absent", v |-> 0]
JNum(n) == [t |-> "num", v |-> n]
JStr == [t |-> "str", v |-> 0]          \* a string that is no number
EmptyBody == [monthly_income |-> JAbsent, daily_pages |-> JAbsent, days_per_month |-> JAbsent]
SettingsInputs ==
    { EmptyBody,
      [EmptyBody EXCEPT !.monthly_income = JNum(1000)],
      [EmptyBody EXCEPT !.daily_pages = JNum(0), !.days_per_month = JNum(-30)],
      [EmptyBody EXCEPT !.monthly_income = JStr] }

\* ----------------------------------------------------------------- helpers
Lower(c) ==
    CASE c = "P" -> "p" [] c = "D" -> "d" [] c = "F" -> "f"
      [] c = "A" -> "a" [] c = "B" -> "b" [] OTHER -> c

LowerStr(s) == [i \in 1 .. Len(s) |-> Lower(s[i])]

EndsWith(s, suf) ==
    /\ Len(s) >= Len(suf)
    /\ SubSeq(s, Len(s) - Len(suf) + 1, Len(s)) = suf

DotPdf == <<".", "p", "d", "f">>

\* faulty variant of NotPdf: the extension is compared as it is written
NotPdfCaseSensitive(name) == name = <<>> \/ ~EndsWith(name, DotPdf)

\* not f.filename or not f.filename.lower().endswith(".pdf")
NotPdf(name) == name = <<>> \/ ~EndsWith(LowerStr(name), DotPdf)

\* round(n / d, 0) as Python rounds: to nearest, ties to even
RoundDiv(n, d) ==
    LET nn == IF d < 0 THEN -n ELSE n
        dd == IF d < 0 THEN -d ELSE d
        q == nn \div dd
        r == nn % dd
    IN  IF 2 * r > dd \/ (2 * r = dd /\ q % 2 = 1) THEN q + 1 ELSE q

\* round(pages * rate, 4), in units of 0.0001
Cost(pages, rate) == RoundDiv(pages * rate[1] * 10000, rate[2])

\* round(rate, 6), in units of 0.000001
Round6(rate) == RoundDiv(rate[1] * 1000000, rate[2])

Names(uploads) == { uploads[i].filename : i \in 1 .. Len(uploads) }

\* next((u for u in uploads if u["id"] == uid), None): <<>> stands for None
FindEntry(uploads, uid) ==
    LET found == SelectSeq(uploads, LAMBDA u : u.id = uid)
    IN  IF found = <<>> THEN <<>> ELSE <<Head(found)>>

\* faulty variant of InPeriod: the upper bound is exclusive
InPeriodExclusive(u, date_from, date_to) ==
    date_from <= u.timestamp /\ u.timestamp < date_to

\* date_from <= u["timestamp"][:10] <= date_to
InPeriod(u, date_from, date_to) == date_from <= u.timestamp /\ u.timestamp <= date_to

RECURSIVE SumOver(_, _)
SumOver(s, field) ==
    IF s = <<>> THEN 0 ELSE Head(s)[field] + SumOver(Tail(s), field)

RECURSIVE SortedDesc(_)
SortedDesc(S) ==
    IF S = {} THEN <<>>
    ELSE LET m == CHOOSE x \in S : \A y \in S : y <= x
         IN  <<m>> \o SortedDesc(S \ {m})

\* the per-day accumulation of save_excel: one row per day, newest first
DailyRows(uploads) ==
    LET days == SortedDesc({ uploads[i].timestamp : i \in 1 .. Len(uploads) })
        OfDay(d) == SelectSeq(uploads, LAMBDA u : u.timestamp = d)
    IN  [k \in 1 .. Len(days) |->
            [date |-> days[k],
             files |-> Len(OfDay(days[k])),
             pages |-> SumOver(OfDay(days[k]), "pages"),
             cost |-> SumOver(OfDay(days[k]), "cost")]]

\* the workbook save_excel writes from a document
Workbook(data) ==
    [kind |-> "xlsx",
     rows |-> [i \in 1 .. Len(data.uploads) |->
                 [id |-> data.uploads[i].id,
                  date |-> data.uploads[i].timestamp,
                  filename |-> data.uploads[i].filename,
                  pages |-> data.uploads[i].pages,
                  cost |-> data.uploads[i].cost,
                  size_mb |-> RoundDiv(data.uploads[i].size_bytes * 100, 1024 * 1024)]],
     daily |-> DailyRows(data.uploads)]

\* ------------------------------------------------------------------- state
VARIABLES
    historyFile,    \* data/history.json: absent, unparsable, or a JSON document
    excelFile,      \* data/history.xlsx: absent or a workbook
    outputDir,      \* names of the files stored under Output/
    clock,          \* the current day
    nextId,         \* the next id uuid4 hands out
    pc,             \* where each thread's handler stands
    local,          \* the handler's local variables, and in 'before' what
                    \* history.json held when the handler loaded it
    response        \* the last response each thread sent

vars == <<historyFile, excelFile, outputDir, clock, nextId, pc, local, response>>

Absent == [kind |-> "absent"]
Garbled == [kind |-> "garbled"]     \* empty or partly written: json.load raises
Json(data) == [kind |-> "json", data |-> data]

IdleLocal == [op |-> "none"]
NoResponse == [op |-> "none", status |-> 0]

\* ------------------------------------------------- load_history, responses
\* json.load raises on a file that exists and holds no complete document
CanLoad == historyFile.kind # "garbled"

LoadHistory ==
    IF historyFile.kind = "json" THEN historyFile.data
    ELSE [uploads |-> <<>>, settings |-> DefaultSettings]

\* the handler returns (or an exception ends it): the thread is free again
Respond(p, r) ==
    /\ pc' = [pc EXCEPT ![p] = "idle"]
    /\ local' = [local EXCEPT ![p] = IdleLocal]
    /\ response' = [response EXCEPT ![p] = r]

Error(op, status, error) == [op |-> op, status |-> status, error |-> error]

Goto(p, label, loc) ==
    /\ pc' = [pc EXCEPT ![p] = label]
    /\ local' = [local EXCEPT ![p] = loc]
    /\ response' = [response EXCEPT ![p] = NoResponse]

\* ------------------------------------------------------------ upload_files
Unknown == <<"u", "n", "k", "n", "o", "w", "n">>

\* faulty variant of IsDuplicate: the uploaded name is lower-cased, the stored
\* names are not
IsDuplicateLowered(name, existing_names) == LowerStr(name) \in existing_names

\* f.filename in existing_names
IsDuplicate(name, existing_names) == name \in existing_names

Rejected(name, error) ==
    [filename |-> name, error |-> error, pages |-> 0, cost |-> 0, id |-> 0]

\* the record upload_files builds for a stored file
Entry(file_id, f, now) ==
    [id |-> file_id,
     date |-> now,
     timestamp |-> now,
     filename |-> f.filename,
     saved_as |-> <<file_id, f.filename>>,
     pages |-> f.pages,
     cost |-> Cost(f.pages, COST_PER_PAGE),
     size_bytes |-> f.size_mb * 1024 * 1024]

\* the server starts on a fresh installation, or on the files an earlier run
\* left: here the record of a file uploaded on day 1
Fresh ==
    /\ historyFile = Absent
    /\ excelFile = Absent
    /\ outputDir = {}
    /\ nextId = 1

Restarted ==
    LET earlier == [uploads |-> <<Entry(1, StoredA, 1)>>,
                    settings |-> DefaultSettings]
    IN  /\ historyFile = Json(earlier)
        /\ excelFile = Workbook(earlier)
        /\ outputDir = { earlier.uploads[i].saved_as : i \in 1 .. Len(earlier.uploads) }
        /\ nextId = Len(earlier.uploads) + 1

Init ==
    /\ Fresh \/ Restarted
    /\ clock = 1
    /\ pc = [p \in Procs |-> "idle"]
    /\ local = [p \in Procs |-> IdleLocal]
    /\ response = [p \in Procs |-> NoResponse]

\* faulty variant of UploadBegin: the number of files is not checked against
\* MAX_FILES
UploadBeginNoLimit(p, n) ==
    /\ pc[p] = "idle"
    /\ UNCHANGED <<historyFile, excelFile, outputDir, clock, nextId>>
    /\ IF n = 0 THEN Respond(p, Error("upload", 400, "Nu s-au trimis fisiere"))
       ELSE IF ~CanLoad THEN Respond(p, Error("upload", 500, "load"))
       ELSE Goto(p, "upload_loop",
                 [op |-> "upload",
                  history |-> LoadHistory, before |-> historyFile,
                  existing_names |-> Names(LoadHistory.uploads),
                  results |-> <<>>,
                  now |-> clock,
                  nfiles |-> n])

\* lines 91-101: the checks on the request, then load_history and the snapshot
\* of the names in it
UploadBegin(p, n) ==
    /\ pc[p] = "idle"
    /\ UNCHANGED <<historyFile, excelFile, outputDir, clock, nextId>>
    /\ IF n = 0 THEN Respond(p, Error("upload", 400, "Nu s-au trimis fisiere"))
       ELSE IF n > MAX_FILES THEN Respond(p, Error("upload", 400, "Maxim fisiere permise"))
       ELSE IF ~CanLoad THEN Respond(p, Error("upload", 500, "load"))
       ELSE Goto(p, "upload_loop",
                 [op |-> "upload",
                  history |-> LoadHistory, before |-> historyFile,
                  existing_names |-> Names(LoadHistory.uploads),
                  results |-> <<>>,
                  now |-> clock,
                  nfiles |-> n])

\* faulty variant of UploadFile: the document is saved in the loop, after each
\* file that is accepted
UploadFileSaving(p, f) ==
    LET loc == local[p]
        after == IF loc.nfiles = 1 THEN "save_open" ELSE "upload_loop"
        Continue(history, result) ==
            /\ pc' = [pc EXCEPT ![p] = after]
            /\ local' = [local EXCEPT ![p] =
                            [loc EXCEPT !.history = history,
                                        !.results = Append(loc.results, result),
                                        !.nfiles = loc.nfiles - 1]]
    IN  /\ pc[p] = "upload_loop"
        /\ UNCHANGED <<excelFile, clock, response>>
        /\ IF NotPdf(f.filename)
           THEN /\ Continue(loc.history,
                            Rejected(IF f.filename = <<>> THEN Unknown ELSE f.filename,
                                     "Nu este PDF"))
                /\ UNCHANGED <<historyFile, outputDir, nextId>>
           ELSE IF IsDuplicate(f.filename, loc.existing_names)
           THEN /\ Continue(loc.history, Rejected(f.filename, "Duplicat"))
                /\ UNCHANGED <<historyFile, outputDir, nextId>>
           ELSE /\ nextId <= MaxIds
                /\ nextId' = nextId + 1
                /\ IF f.size_mb * 1024 * 1024 > MAX_FILE_SIZE_MB * 1024 * 1024
                   THEN /\ outputDir' = (outputDir \cup {<<nextId, f.filename>>})
                                            \ {<<nextId, f.filename>>}
                        /\ Continue(loc.history, Rejected(f.filename, "Fisier prea mare"))
                        /\ UNCHANGED historyFile
                   ELSE LET entry == Entry(nextId, f, loc.now)
                            history == [loc.history EXCEPT !.uploads = Append(@, entry)]
                        IN  /\ outputDir' = outputDir \cup {entry.saved_as}
                            /\ historyFile' = Json(history)
                            /\ Continue(history,
                                        [filename |-> f.filename, error |-> "",
                                         pages |-> entry.pages, cost |-> entry.cost,
                                         size_mb |-> RoundDiv(entry.size_bytes * 100,
                                                              1048576),
                                         id |-> entry.id])

\* lines 103-137: one pass of the loop, for the next file f of the batch
UploadFile(p, f) ==
    LET loc == local[p]
        after == IF loc.nfiles = 1 THEN "save_open" ELSE "upload_loop"
        Continue(history, result) ==
            /\ pc' = [pc EXCEPT ![p] = after]
            /\ local' = [local EXCEPT ![p] =
                            [loc EXCEPT !.history = history,
                                        !.results = Append(loc.results, result),
                                        !.nfiles = loc.nfiles - 1]]
    IN  /\ pc[p] = "upload_loop"
        /\ UNCHANGED <<historyFile, excelFile, clock, response>>
        /\ IF NotPdf(f.filename)
           THEN /\ Continue(loc.history,
                            Rejected(IF f.filename = <<>> THEN Unknown ELSE f.filename,
                                     "Nu este PDF"))
                /\ UNCHANGED <<outputDir, nextId>>
           ELSE IF IsDuplicate(f.filename, loc.existing_names)
           THEN /\ Continue(loc.history, Rejected(f.filename, "Duplicat"))
                /\ UNCHANGED <<outputDir, nextId>>
           ELSE /\ nextId <= MaxIds
                /\ nextId' = nextId + 1
                /\ IF f.size_mb * 1024 * 1024 > MAX_FILE_SIZE_MB * 1024 * 1024
                   THEN \* the file is written and unlinked again
                        /\ outputDir' = (outputDir \cup {<<nextId, f.filename>>})
                                            \ {<<nextId, f.filename>>}
                        /\ Continue(loc.history, Rejected(f.filename, "Fisier prea mare"))
                   ELSE LET entry == Entry(nextId, f, loc.now)
                        IN  /\ outputDir' = outputDir \cup {entry.saved_as}
                            /\ Continue([loc.history EXCEPT
                                            !.uploads = Append(@, entry)],
                                        [filename |-> f.filename, error |-> "",
                                         pages |-> entry.pages, cost |-> entry.cost,
                                         size_mb |-> RoundDiv(entry.size_bytes * 100,
                                                              1048576),
                                         id |-> entry.id])

UploadResponse(loc) ==
    [op |-> "upload", status |-> 200, error |-> "",
     results |-> loc.results,
     total_pages |-> SumOver(loc.results, "pages"),
     total_cost |-> SumOver(loc.results, "cost"),
     cost_per_page |-> Round6(COST_PER_PAGE)]

\* ----------------------------------------------------------- delete_upload
\* faulty variant of WithoutId: the test is inverted
WithoutIdInverted(uploads, upload_id) == SelectSeq(uploads, LAMBDA u : u.id = upload_id)

\* [u for u in history["uploads"] if u["id"] != upload_id]
WithoutId(uploads, upload_id) == SelectSeq(uploads, LAMBDA u : u.id # upload_id)

\* lines 265-268: load_history, look the record up, 404 when there is none
DeleteBegin(p, upload_id) ==
    /\ pc[p] = "idle"
    /\ UNCHANGED <<historyFile, excelFile, outputDir, clock, nextId>>
    /\ IF ~CanLoad THEN Respond(p, Error("delete", 500, "load"))
       ELSE IF FindEntry(LoadHistory.uploads, upload_id) = <<>>
       THEN Respond(p, Error("delete", 404, "Nu s-a gasit"))
       ELSE Goto(p, "delete_unlink",
                 [op |-> "delete",
                  history |-> LoadHistory, before |-> historyFile,
                  upload_id |-> upload_id,
                  entry |-> Head(FindEntry(LoadHistory.uploads, upload_id))])

\* lines 270-274: unlink the stored file if it is there, drop the record from
\* the copy
DeleteUnlink(p) ==
    LET loc == local[p]
    IN  /\ pc[p] = "delete_unlink"
        /\ outputDir' = outputDir \ {loc.entry.saved_as}
        /\ pc' = [pc EXCEPT ![p] = "save_open"]
        /\ local' = [local EXCEPT ![p] =
                        [loc EXCEPT !.history.uploads = WithoutId(@, loc.upload_id)]]
        /\ UNCHANGED <<historyFile, excelFile, clock, nextId, response>>

\* ------------------------------------------------------------- delete_bulk
\* faulty variant of WithoutIds: only the first id of the list is filtered out
WithoutIdsFirst(uploads, ids) ==
    SelectSeq(uploads, LAMBDA u : ids[1] # u.id)

\* [u for u in history["uploads"] if u["id"] not in ids]
WithoutIds(uploads, ids) ==
    SelectSeq(uploads, LAMBDA u : \A k \in 1 .. Len(ids) : ids[k] # u.id)

\* lines 281-287: 400 on an empty id list, else load_history
BulkBegin(p, ids) ==
    /\ pc[p] = "idle"
    /\ UNCHANGED <<historyFile, excelFile, outputDir, clock, nextId>>
    /\ IF ids = <<>> THEN Respond(p, Error("bulk", 400, "Niciun ID specificat"))
       ELSE IF ~CanLoad THEN Respond(p, Error("bulk", 500, "load"))
       ELSE Goto(p, "bulk_loop",
                 [op |-> "bulk", history |-> LoadHistory, before |-> historyFile, ids |-> ids,
                  i |-> 1, deleted |-> 0])

\* lines 288-295: one pass of the loop over ids; after the last one the copy
\* is filtered
BulkStep(p) ==
    LET loc == local[p]
        entry == FindEntry(loc.history.uploads, loc.ids[loc.i])
        last == loc.i = Len(loc.ids)
    IN  /\ pc[p] = "bulk_loop"
        /\ outputDir' = IF entry = <<>> THEN outputDir
                        ELSE outputDir \ {Head(entry).saved_as}
        /\ pc' = [pc EXCEPT ![p] = IF last THEN "save_open" ELSE "bulk_loop"]
        /\ local' = [local EXCEPT ![p] =
                        [loc EXCEPT
                            !.i = loc.i + 1,
                            !.deleted = IF entry = <<>> THEN @ ELSE @ + 1,
                            !.history.uploads =
                                IF last THEN WithoutIds(@, loc.ids) ELSE @]]
        /\ UNCHANGED <<historyFile, excelFile, clock, nextId, response>>

\* ------------------------------------------------------------ reset_period
\* lines 302-318: 400 when a bound is missing, else load_history and the list
\* of the records of the period
ResetBegin(p, date_from, date_to) ==
    /\ pc[p] = "idle"
    /\ UNCHANGED <<historyFile, excelFile, outputDir, clock, nextId>>
    /\ IF date_from = NoDate \/ date_to = NoDate
       THEN Respond(p, Error("reset", 400, "Specifica perioada (from, to)"))
       ELSE IF ~CanLoad THEN Respond(p, Error("reset", 500, "load"))
       ELSE LET history == LoadHistory
                to_delete == SelectSeq(history.uploads,
                                       LAMBDA u : InPeriod(u, date_from, date_to))
                kept == SelectSeq(history.uploads,
                                  LAMBDA u : ~InPeriod(u, date_from, date_to))
            IN  IF to_delete = <<>>
                THEN Goto(p, "save_open",
                          [op |-> "reset", history |-> [history EXCEPT !.uploads = kept],
                           before |-> historyFile,
                           date_from |-> date_from, date_to |-> date_to,
                           to_delete |-> to_delete, i |-> 1, deleted |-> 0])
                ELSE Goto(p, "reset_loop",
                          [op |-> "reset", history |-> history, before |-> historyFile,
                           date_from |-> date_from, date_to |-> date_to,
                           to_delete |-> to_delete, i |-> 1, deleted |-> 0])

\* lines 312-318: unlink the stored file of the next record of to_delete;
\* after the last one count them and filter the copy
ResetStep(p) ==
    LET loc == local[p]
        last == loc.i = Len(loc.to_delete)
    IN  /\ pc[p] = "reset_loop"
        /\ outputDir' = outputDir \ {loc.to_delete[loc.i].saved_as}
        /\ pc' = [pc EXCEPT ![p] = IF last THEN "save_open" ELSE "reset_loop"]
        /\ local' = [local EXCEPT ![p] =
                        [loc EXCEPT
                            !.i = loc.i + 1,
                            !.deleted = IF last THEN Len(loc.to_delete) ELSE @,
                            !.history.uploads =
                                IF last
                                THEN SelectSeq(@, LAMBDA u :
                                        ~InPeriod(u, loc.date_from, loc.date_to))
                                ELSE @]]
        /\ UNCHANGED <<historyFile, excelFile, clock, nextId, response>>

\* ---------------------------------------------------------------- settings
Get(data, key, default) == IF data[key].t = "absent" THEN JNum(default) ELSE data[key]

\* float(x) and int(x) raise ValueError on a string that is no number
Coercible(x) == x.t = "num"

\* faulty variant of WithSettings: the document is built anew, without the
\* records
WithSettingsOnly(history, data) ==
    [uploads |-> <<>>,
     settings |-> [monthly_income |-> Get(data, "monthly_income", 2000).v,
                   daily_pages |-> Get(data, "daily_pages", 700).v,
                   days_per_month |-> Get(data, "days_per_month", 30).v]]

\* the document the POST branch builds: history["settings"] = {...}
WithSettings(history, data) ==
    [history EXCEPT !.settings =
        [monthly_income |-> Get(data, "monthly_income", 2000).v,
         daily_pages |-> Get(data, "daily_pages", 700).v,
         days_per_month |-> Get(data, "days_per_month", 30).v]]

\* lines 333-340: load_history, then the three conversions
SettingsPost(p, data) ==
    /\ pc[p] = "idle"
    /\ UNCHANGED <<historyFile, excelFile, outputDir, clock, nextId>>
    /\ IF ~CanLoad THEN Respond(p, Error("settings", 500, "load"))
       ELSE IF \/ ~Coercible(Get(data, "monthly_income", 2000))
               \/ ~Coercible(Get(data, "daily_pages", 700))
               \/ ~Coercible(Get(data, "days_per_month", 30))
       THEN Respond(p, Error("settings", 500, "ValueError"))
       ELSE Goto(p, "save_open",
                 [op |-> "settings", history |-> WithSettings(LoadHistory, data),
                  before |-> historyFile])

\* lines 333, 345: the GET branch
SettingsGet(p) ==
    /\ pc[p] = "idle"
    /\ UNCHANGED <<historyFile, excelFile, outputDir, clock, nextId>>
    /\ IF ~CanLoad THEN Respond(p, Error("settings_get", 500, "load"))
       ELSE Respond(p, [op |-> "settings_get", status |-> 200, error |-> "",
                        settings |-> LoadHistory.settings])

\* line 343: cost_per_page as the settings define it
SettingsRate(settings) ==
    <<settings.monthly_income, settings.daily_pages * settings.days_per_month>>

\* lines 342-344: the rate the POST branch answers with; the division raises
\* ZeroDivisionError when the divisor is 0
SettingsResponse(loc) ==
    IF SettingsRate(loc.history.settings)[2] = 0
    THEN Error("settings", 500, "ZeroDivisionError")
    ELSE [op |-> "settings", status |-> 200, error |-> "",
          cost_per_page |-> Round6(SettingsRate(loc.history.settings))]

\* ------------------------------------------------------------ export_excel
\* lines 325-326: the workbook is sent as it is when the file exists; else
\* load_history
ExportBegin(p) ==
    /\ pc[p] = "idle"
    /\ UNCHANGED <<historyFile, excelFile, outputDir, clock, nextId>>
    /\ IF excelFile.kind = "xlsx"
       THEN Respond(p, [op |-> "export", status |-> 200, error |-> "",
                        file |-> excelFile])
       ELSE IF ~CanLoad THEN Respond(p, Error("export", 500, "load"))
       ELSE Goto(p, "export_save",
                 [op |-> "export", history |-> LoadHistory, before |-> historyFile])

\* lines 327-328: save_excel writes the workbook from the copy, send_file
\* sends it
ExportSave(p) ==
    /\ pc[p] = "export_save"
    /\ excelFile' = Workbook(local[p].history)
    /\ Respond(p, [op |-> "export", status |-> 200, error |-> "",
                   file |-> Workbook(local[p].history)])
    /\ UNCHANGED <<historyFile, outputDir, clock, nextId>>

\* ------------------------------------------------- get_history, daily_summary
\* search in u["filename"].lower()
Contains(s, sub) ==
    \E k \in 0 .. Len(s) - Len(sub) : SubSeq(s, k + 1, k + Len(sub)) = sub

\* faulty variant of FilterDates: the upper bound is exclusive
FilterDatesExclusive(uploads, date_from, date_to) ==
    LET lower == IF date_from # NoDate
                 THEN SelectSeq(uploads, LAMBDA u : u.timestamp >= date_from)
                 ELSE uploads
    IN  IF date_to # NoDate
        THEN SelectSeq(lower, LAMBDA u : u.timestamp < date_to)
        ELSE lower

\* lines 155-158, 184-187: a bound that is absent or empty does not filter
FilterDates(uploads, date_from, date_to) ==
    LET lower == IF date_from # NoDate
                 THEN SelectSeq(uploads, LAMBDA u : u.timestamp >= date_from)
                 ELSE uploads
    IN  IF date_to # NoDate
        THEN SelectSeq(lower, LAMBDA u : u.timestamp <= date_to)
        ELSE lower

\* sorted(uploads, key=timestamp, reverse=True): newest day first, the order
\* of the list kept within a day
SortNewestFirst(uploads) ==
    LET days == SortedDesc({ uploads[i].timestamp : i \in 1 .. Len(uploads) })
        OfDay(d) == SelectSeq(uploads, LAMBDA u : u.timestamp = d)
        Join[k \in 0 .. Len(days)] ==
            IF k = 0 THEN <<>> ELSE Join[k - 1] \o OfDay(days[k])
    IN  Join[Len(days)]

\* lines 153-174: what get_history answers for a record list
HistoryView(uploads, date_from, date_to, search) ==
    LET dated == FilterDates(uploads, date_from, date_to)
        found == IF search # <<>>
                 THEN SelectSeq(dated, LAMBDA u : Contains(LowerStr(u.filename), search))
                 ELSE dated
    IN  [op |-> "history", status |-> 200, error |-> "",
         uploads |-> SortNewestFirst(found),
         total_pages |-> SumOver(found, "pages"),
         total_cost |-> SumOver(found, "cost"),
         total_files |-> Len(found),
         cost_per_page |-> Round6(COST_PER_PAGE)]

\* lines 183-203: what daily_summary answers for a record list
DailyView(uploads, date_from, date_to) ==
    LET dated == FilterDates(uploads, date_from, date_to)
        days == SortedDesc({ dated[i].timestamp : i \in 1 .. Len(dated) })
        OfDay(d) == SelectSeq(dated, LAMBDA u : u.timestamp = d)
    IN  [op |-> "daily", status |-> 200, error |-> "",
         days |-> [k \in 1 .. Len(days) |->
                     [date |-> days[k],
                      files |-> Len(OfDay(days[k])),
                      pages |-> SumOver(OfDay(days[k]), "pages"),
                      cost |-> SumOver(OfDay(days[k]), "cost"),
                      filenames |-> [i \in 1 .. Len(OfDay(days[k])) |->
                                        OfDay(days[k])[i].filename]]]]

\* lines 146-174
GetHistory(p, date_from, date_to, search) ==
    /\ pc[p] = "idle"
    /\ UNCHANGED <<historyFile, excelFile, outputDir, clock, nextId>>
    /\ IF ~CanLoad THEN Respond(p, Error("history", 500, "load"))
       ELSE Respond(p, HistoryView(LoadHistory.uploads, date_from, date_to,
                                   LowerStr(search)))

\* lines 177-203
DailySummary(p, date_from, date_to) ==
    /\ pc[p] = "idle"
    /\ UNCHANGED <<historyFile, excelFile, outputDir, clock, nextId>>
    /\ IF ~CanLoad THEN Respond(p, Error("daily", 500, "load"))
       ELSE Respond(p, DailyView(LoadHistory.uploads, date_from, date_to))

\* ------------------------------------------------- save_history, save_excel
\* faulty variant of DumpOutcomes: a document another thread wrote meanwhile
\* is kept
DumpOutcomesKeepOther(data) ==
    IF historyFile.kind = "json" THEN {historyFile} ELSE {Json(data)}

\* what the file holds once json.dump has written data: the document, unless
\* another thread wrote the file after this one's open() truncated it; then
\* the bytes of the two documents overlap, and the result is the document or
\* an unparsable mix, as their lengths decide
DumpOutcomes(data) ==
    IF historyFile.kind = "json" THEN {Json(data), Garbled} ELSE {Json(data)}

\* what the handler answers once save_history has returned
Answer(loc) ==
    CASE loc.op = "upload" -> UploadResponse(loc)
      [] loc.op = "delete" -> [op |-> "delete", status |-> 200, error |-> ""]
      [] loc.op = "bulk" ->
            [op |-> "bulk", status |-> 200, error |-> "", deleted |-> loc.deleted]
      [] loc.op = "reset" ->
            [op |-> "reset", status |-> 200, error |-> "", deleted |-> loc.deleted]
      [] loc.op = "settings" -> SettingsResponse(loc)

\* line 39: open(HISTORY_FILE, "w") empties the file
SaveOpen(p) ==
    /\ pc[p] = "save_open"
    /\ historyFile' = Garbled
    /\ pc' = [pc EXCEPT ![p] = "save_dump"]
    /\ UNCHANGED <<excelFile, outputDir, clock, nextId, local, response>>

\* line 40: json.dump writes the thread's copy, the with block closes the file
SaveDump(p) ==
    /\ pc[p] = "save_dump"
    /\ historyFile' \in DumpOutcomes(local[p].history)
    /\ pc' = [pc EXCEPT ![p] = "save_excel"]
    /\ UNCHANGED <<excelFile, outputDir, clock, nextId, local, response>>

\* line 41 and the rest of the handler: save_excel rewrites the workbook, the
\* handler answers
SaveExcel(p) ==
    /\ pc[p] = "save_excel"
    /\ excelFile' = Workbook(local[p].history)
    /\ Respond(p, Answer(local[p]))
    /\ UNCHANGED <<historyFile, outputDir, clock, nextId>>

\* open() raises OSError: nothing is written
SaveOpenFail(p) ==
    /\ pc[p] = "save_open"
    /\ Respond(p, Error(local[p].op, 500, "save"))
    /\ UNCHANGED <<historyFile, excelFile, outputDir, clock, nextId>>

\* the write raises OSError (disk full, I/O error) part way through
SaveDumpFail(p) ==
    /\ pc[p] = "save_dump"
    /\ historyFile' = Garbled
    /\ Respond(p, Error(local[p].op, 500, "save"))
    /\ UNCHANGED <<excelFile, outputDir, clock, nextId>>

\* wb.save raises: the document is written, the workbook is not
SaveExcelFail(p) ==
    /\ pc[p] = "save_excel"
    /\ Respond(p, Error(local[p].op, 500, "save"))
    /\ UNCHANGED <<historyFile, excelFile, outputDir, clock, nextId>>

\* ------------------------------------------------------------------ system
\* datetime.now() moves on
Tick ==
    /\ clock < MaxDay
    /\ clock' = clock + 1
    /\ UNCHANGED <<historyFile, excelFile, outputDir, nextId, pc, local, response>>

\* the requests that write, or read what a write leaves: the serial server
\* takes these; the history and daily-summary queries, which change nothing,
\* arrive in the threaded server and in the read side below
Begin(p) ==
    \/ \E n \in BatchSizes : UploadBegin(p, n)
    \/ \E id \in IdInputs : DeleteBegin(p, id)
    \/ \E ids \in BulkInputs : BulkBegin(p, ids)
    \/ \E date_from \in DateInputs, date_to \in DateInputs :
            ResetBegin(p, date_from, date_to)
    \/ \E data \in SettingsInputs : SettingsPost(p, data)
    \/ SettingsGet(p)
    \/ ExportBegin(p)

Step(p) ==
    \/ \E f \in FileInputs : UploadFile(p, f)
    \/ DeleteUnlink(p)
    \/ BulkStep(p)
    \/ ResetStep(p)
    \/ SaveOpen(p)
    \/ SaveDump(p)
    \/ SaveExcel(p)
    \/ ExportSave(p)

Fail(p) ==
    \/ SaveOpenFail(p)
    \/ SaveDumpFail(p)
    \/ SaveExcelFail(p)

\* thread p is the next to be started: its request is the next to arrive
NextToArrive(p) ==
    /\ response[p] = NoResponse
    /\ pc[p] = "idle"
    /\ \A q \in Procs : q < p => (pc[q] # "idle" \/ response[q] # NoResponse)

\* the request thread p is started for
Arrive(p) ==
    \/ NextToArrive(p) /\ \E n \in BatchSizes : UploadBegin(p, n)
    \/ NextToArrive(p) /\ \E id \in IdInputs : DeleteBegin(p, id)
    \/ NextToArrive(p) /\ \E ids \in BulkInputs : BulkBegin(p, ids)
    \/ NextToArrive(p) /\ \E date_from \in DateInputs, date_to \in DateInputs :
                            ResetBegin(p, date_from, date_to)
    \/ NextToArrive(p) /\ \E data \in SettingsInputs : SettingsPost(p, data)
    \/ NextToArrive(p) /\ SettingsGet(p)
    \/ NextToArrive(p) /\ ExportBegin(p)
    \/ NextToArrive(p) /\ \E date_from \in DateInputs, date_to \in DateInputs,
                              search \in SearchInputs :
                            GetHistory(p, date_from, date_to, search)
    \/ NextToArrive(p) /\ \E date_from \in DateInputs, date_to \in DateInputs :
                            DailySummary(p, date_from, date_to)

Next ==
    \/ \E p \in Procs : Arrive(p) \/ Step(p) \/ Fail(p)
    \/ Tick

\* the threaded server: the requests of a run interleave, a save may fail
Spec == Init /\ [][Next]_vars

NextSerial ==
    \/ \E p \in {1} : Begin(p) \/ Step(p)
    \/ Tick

\* the serial server: the worker takes the next request when it has answered
\* the last one, and every save succeeds
SpecSerial == Init /\ [][NextSerial]_vars

NextSerialFail ==
    \/ \E p \in {1} : Begin(p) \/ Step(p) \/ Fail(p)
    \/ Tick

\* the serial server, where a save may fail
SpecSerialFail == Init /\ [][NextSerialFail]_vars

\* the read side alone: the server starts on the records earlier runs left, in
\* the order they were uploaded, and answers history and daily-summary queries
QueryFiles ==
    { f \in FileInputs : ~NotPdf(f.filename) /\ f.size_mb <= MAX_FILE_SIZE_MB }

QueryDocs ==
    LET Choices == UNION { [1 .. n -> QueryFiles \X (1 .. MaxDay)] : n \in 0 .. MaxIds + 1 }
        InOrder(c) == \A i \in 1 .. Len(c) - 1 : c[i][2] <= c[i + 1][2]
    IN  { [uploads |-> [i \in 1 .. Len(c) |-> Entry(i, c[i][1], c[i][2])],
           settings |-> DefaultSettings] : c \in { x \in Choices : InOrder(x) } }

InitQuery ==
    /\ \E doc \in QueryDocs :
          /\ historyFile = Json(doc)
          /\ excelFile = Workbook(doc)
          /\ outputDir = { doc.uploads[i].saved_as : i \in 1 .. Len(doc.uploads) }
          /\ nextId = Len(doc.uploads) + 1
    /\ clock = MaxDay
    /\ pc = [p \in Procs |-> "idle"]
    /\ local = [p \in Procs |-> IdleLocal]
    /\ response = [p \in Procs |-> NoResponse]

NextQuery ==
    \/ \E date_from \in DateInputs, date_to \in DateInputs, search \in SearchInputs :
            GetHistory(1, date_from, date_to, search)
    \/ \E date_from \in DateInputs, date_to \in DateInputs :
            DailySummary(1, date_from, date_to)

SpecQuery == InitQuery /\ [][NextQuery]_vars

\* ------------------------------------------------------------ the claims
\* the document a file value stands for (what load_history makes of it)
DocOf(file) ==
    IF file.kind = "json" THEN file.data
    ELSE [uploads |-> <<>>, settings |-> DefaultSettings]

\* the persisted record list
Stored == DocOf(historyFile).uploads

Last(s) == s[Len(s)]

\* thread p takes the step from label a to label b
Moves(p, a, b) == pc[p] = a /\ pc'[p] = b

\* C1: no two records of the persisted record store have the same filename,
\* whatever requests were served.
C1_FilenamesUnique ==
    \A i, j \in 1 .. Len(Stored) : i # j => Stored[i].filename # Stored[j].filename

\* C2: the record an upload appends costs round(pages * cost_per_page, 4),
\* with cost_per_page = monthly_income / (daily_pages * days_per_month) of the
\* settings the upload loaded (where that rate is defined and positive).
C2_CostFollowsSettings ==
    [][\A p \in Procs :
        (/\ pc[p] = "upload_loop"
         /\ local'[p].op = "upload"
         /\ Len(local'[p].history.uploads) > Len(local[p].history.uploads)
         /\ SettingsRate(local[p].history.settings)[2] > 0)
        => LET entry == Last(local'[p].history.uploads)
           IN  entry.cost = Cost(entry.pages, SettingsRate(local[p].history.settings))
      ]_vars

AllIdle == \A p \in Procs : pc[p] = "idle"

Ids(uploads) == { uploads[i].id : i \in 1 .. Len(uploads) }

Success(op) == [op |-> op, status |-> 200, error |-> ""]

\* C3: the document json.dump leaves is the writing thread's own copy, whatever
\* another thread persisted since this one loaded: the last writer wins.
C3_LastWriterWins ==
    [][\A p \in Procs :
        (Moves(p, "save_dump", "save_excel") /\ historyFile'.kind = "json")
        => historyFile'.data = local[p].history
      ]_vars

\* C3, the interleaving: a delete and an upload have both answered success,
\* and the persisted store still holds the deleted record next to the new one.
C3_LostUpdate ==
    \E p, q \in Procs :
        /\ p # q
        /\ AllIdle
        /\ response[p] = Success("delete")
        /\ response[q].op = "upload" /\ response[q].status = 200
        /\ historyFile.kind = "json"
        /\ Ids(Stored) = {1, 2}

\* C4: when a save fails, the request is answered with an error and
\* history.json holds exactly what it held when the handler loaded it.
C4_SaveFailureLeavesDocument ==
    [][\A p \in Procs :
        (/\ pc[p] \in {"save_open", "save_dump", "save_excel"}
         /\ response'[p].status = 500
         /\ response'[p].error = "save")
        => historyFile' = local[p].before
      ]_vars

\* C5: a delete of an id the store holds unlinks that record's file and no
\* other, and persists the record list without exactly that record; a delete
\* answered 404 changes neither history.json, nor Output/, nor the workbook.
C5_DeleteById ==
    [][\A p \in Procs :
        /\ Moves(p, "delete_unlink", "save_open")
           => \E k \in 1 .. Len(Stored) :
                /\ Stored[k].id = local[p].upload_id
                /\ outputDir' = outputDir \ {Stored[k].saved_as}
        /\ (local[p].op = "delete" /\ Moves(p, "save_dump", "save_excel"))
           => LET was == DocOf(local[p].before)
              IN  \E k \in 1 .. Len(was.uploads) :
                    /\ was.uploads[k].id = local[p].upload_id
                    /\ historyFile' =
                         Json([was EXCEPT !.uploads =
                                 SubSeq(@, 1, k - 1) \o SubSeq(@, k + 1, Len(@))])
        /\ (pc[p] = "idle" /\ response'[p].op = "delete" /\ response'[p].status = 404)
           => UNCHANGED <<historyFile, outputDir, excelFile>>
      ]_vars

\* C5, its case: a delete has answered success, and another record and its
\* stored file are still there.
C5_Deleted ==
    /\ response[1] = Success("delete")
    /\ Len(Stored) = 1
    /\ outputDir = {Stored[1].saved_as}

\* C6: delete-bulk persists the record list without the records whose id is
\* in the collection, and answers 'deleted' = the number of records removed.
C6_BulkCountsRemoved ==
    [][\A p \in Procs :
        (local[p].op = "bulk" /\ Moves(p, "save_excel", "idle"))
        => LET was == DocOf(local[p].before).uploads
           IN  /\ Ids(Stored') = Ids(was) \ { local[p].ids[k] : k \in 1 .. Len(local[p].ids) }
               /\ response'[p].deleted = Len(was) - Len(Stored')
      ]_vars

\* C7: the persisted settings have all three fields positive.
C7_SettingsPositive ==
    LET s == DocOf(historyFile).settings
    IN  s.monthly_income > 0 /\ s.daily_pages > 0 /\ s.days_per_month > 0

\* C8: a file of an upload whose filename is the filename of a record of the
\* persisted store gets a 'duplicate' error entry; no record is appended for
\* it, no id is drawn and no file is stored.
C8_DuplicateRejected ==
    [][\A p \in Procs :
        (/\ pc[p] = "upload_loop"
         /\ local'[p].op = "upload"
         /\ Len(local'[p].results) > Len(local[p].results)
         /\ Last(local'[p].results).filename \in Names(Stored))
        => /\ Last(local'[p].results) =
                [filename |-> Last(local'[p].results).filename, error |-> "Duplicat",
                 pages |-> 0, cost |-> 0, id |-> 0]
           /\ local'[p].history = local[p].history
           /\ UNCHANGED <<outputDir, nextId>>
      ]_vars

\* C8, its case: an upload has answered with a 'duplicate' entry for a file
\* whose name the store holds.
C8_DuplicateAnswered ==
    /\ response[1].op = "upload"
    /\ response[1].status = 200
    /\ \E k \in 1 .. Len(response[1].results) :
            /\ response[1].results[k].error = "Duplicat"
            /\ response[1].results[k].filename \in Names(Stored)

\* C9: the document a settings update persists holds the record list the
\* handler loaded, record for record.
C9_SettingsKeepRecords ==
    [][\A p \in Procs :
        (local[p].op = "settings" /\ Moves(p, "save_dump", "save_excel"))
        => /\ historyFile'.kind = "json"
           /\ historyFile'.data.uploads = DocOf(local[p].before).uploads
      ]_vars

\* C9, its case: a settings update has changed the settings of a store that
\* holds a record.
C9_SettingsChanged ==
    /\ response[1].op = "settings"
    /\ response[1].status = 200
    /\ Len(Stored) > 0
    /\ DocOf(historyFile).settings # DefaultSettings

\* C10: reset-period with both bounds persists the record list without all
\* and only the records whose day d has from <= d <= to, leaves none of their
\* stored files, and answers 'deleted' = the number of records removed; with
\* a bound missing it answers 400 and changes nothing.
C10_ResetPeriod ==
    [][\A p \in Procs :
        /\ (local[p].op = "reset" /\ Moves(p, "save_excel", "idle"))
           => LET was == DocOf(local[p].before).uploads
                  gone == { k \in 1 .. Len(was) :
                              /\ local[p].date_from <= was[k].timestamp
                              /\ was[k].timestamp <= local[p].date_to }
              IN  /\ local[p].date_from # NoDate /\ local[p].date_to # NoDate
                  /\ Ids(Stored') = { was[k].id : k \in (1 .. Len(was)) \ gone }
                  /\ Len(Stored') = Len(was) - Cardinality(gone)
                  /\ \A k \in 1 .. Len(Stored') : \E j \in 1 .. Len(was) : Stored'[k] = was[j]
                  /\ \A k \in gone : was[k].saved_as \notin outputDir'
                  /\ response'[p].deleted = Cardinality(gone)
        /\ (pc[p] = "idle" /\ response'[p].op = "reset" /\ response'[p].status = 400)
           => UNCHANGED <<historyFile, outputDir, excelFile>>
      ]_vars

\* C10, its case: a reset has removed a record of the period and kept one
\* outside it.
C10_PeriodReset ==
    /\ response[1].op = "reset"
    /\ response[1].status = 200
    /\ response[1].deleted = 1
    /\ Len(Stored) = 1
    /\ outputDir = {Stored[1].saved_as}

\* a save that failed has told its caller so
NoSaveFailed ==
    \A q \in Procs : response[q].status # 500 \/ response[q].error # "save"

\* C11: as long as no save has failed, no request is answered with a failure
\* of its load of the record document: a load that runs while another request
\* saves finds the complete old or the complete new document.
C11_LoadNeverFails ==
    NoSaveFailed =>
        \A p \in Procs : response[p].status # 500 \/ response[p].error # "load"

\* C12: whenever no request is in flight and no save has failed, the workbook,
\* if it exists, is the projection of the persisted record document, for every
\* interleaving of the requests.
C12_WorkbookMatchesDocument ==
    (/\ AllIdle
     /\ NoSaveFailed
     /\ historyFile.kind = "json"
     /\ excelFile.kind = "xlsx")
        => excelFile = Workbook(historyFile.data)

\* the ids of the records a batch has appended so far
BatchIds(results) ==
    { results[k].id : k \in { j \in 1 .. Len(results) : results[j].error = "" } }

\* C13: while an upload batch is in flight the persisted document holds none
\* of the batch's new records, or, once every file has been processed and the
\* document has been written, all of them; when the batch is answered it
\* holds all of them.
C13_BatchPersistedAtOnce ==
    \A p \in Procs :
        /\ local[p].op = "upload" =>
              \/ Ids(Stored) \cap BatchIds(local[p].results) = {}
              \/ /\ pc[p] = "save_excel"
                 /\ local[p].nfiles = 0
                 /\ BatchIds(local[p].results) \subseteq Ids(Stored)
        /\ (response[p].op = "upload" /\ response[p].status = 200) =>
              BatchIds(response[p].results) \subseteq Ids(Stored)

\* C13, its case: a batch of two accepted files has been written and both
\* records are in the persisted document.
C13_BatchWritten ==
    /\ pc[1] = "save_excel"
    /\ local[1].op = "upload"
    /\ Cardinality(BatchIds(local[1].results)) = 2
    /\ BatchIds(local[1].results) \subseteq Ids(Stored)

\* a name that ends in .pdf, in either case
PdfName(name) ==
    /\ Len(name) >= 4
    /\ LowerStr(SubSeq(name, Len(name) - 3, Len(name))) = <<".", "p", "d", "f">>

\* C14: in the answer of an upload batch every file has one entry, decided on
\* the file alone and on the records persisted before the batch: an error
\* entry only for a name that is not a PDF's, for a name those records hold,
\* or for the size; and every other file, wherever rejected files stand in
\* the batch, has its record in the persisted document.
C14_FilesDecidedIndependently ==
    (response[1].op = "upload" /\ response[1].status = 200) =>
        LET results == response[1].results
            earlier == SelectSeq(Stored, LAMBDA u : u.id \notin BatchIds(results))
        IN  \A k \in 1 .. Len(results) :
                LET r == results[k]
                IN  CASE r.error = "Nu este PDF" ->
                            r.filename = Unknown \/ ~PdfName(r.filename)
                      [] r.error = "Duplicat" ->
                            r.filename \in Names(earlier)
                      [] r.error = "Fisier prea mare" ->
                            PdfName(r.filename) /\ r.filename \notin Names(earlier)
                      [] r.error = "" ->
                            /\ PdfName(r.filename)
                            /\ r.filename \notin Names(earlier)
                            /\ \E i \in 1 .. Len(Stored) :
                                  /\ Stored[i].id = r.id
                                  /\ Stored[i].filename = r.filename
                                  /\ Stored[i].pages = r.pages
                                  /\ Stored[i].cost = r.cost
                                  /\ Stored[i].saved_as \in outputDir
                      [] OTHER -> FALSE

\* C14, its case: a batch whose first file was rejected and whose second file
\* was accepted has been answered, and the second file's record is persisted.
C14_RejectedThenAccepted ==
    /\ response[1].op = "upload"
    /\ response[1].status = 200
    /\ Len(response[1].results) = 2
    /\ response[1].results[1].error # ""
    /\ response[1].results[2].error = ""
    /\ response[1].results[2].id \in Ids(Stored)

\* the sum of a field over the three answers of a split
SumOfParts(parts, field) == parts[1][field] + parts[2][field] + parts[3][field]

\* C15: for every split of the days into the ranges up to a, a+1 to b, and
\* from b+1 on (the middle one empty when a = b), the file count, page sum and
\* cost sum of the unfiltered history, and of the unfiltered daily summary,
\* are the sums of the same quantities over the three range queries; and every
\* record is counted in exactly one daily group.
C15_PartitionConsistency ==
    LET all == HistoryView(Stored, NoDate, NoDate, <<>>)
        days == DailyView(Stored, NoDate, NoDate).days
        Days(view) == [files |-> SumOver(view.days, "files"),
                       pages |-> SumOver(view.days, "pages"),
                       cost |-> SumOver(view.days, "cost")]
    IN  /\ \A a \in 1 .. MaxDay : \A b \in a .. MaxDay :
              LET history == << HistoryView(Stored, NoDate, a, <<>>),
                                HistoryView(Stored, a + 1, b, <<>>),
                                HistoryView(Stored, b + 1, NoDate, <<>>) >>
                  daily == << Days(DailyView(Stored, NoDate, a)),
                              Days(DailyView(Stored, a + 1, b)),
                              Days(DailyView(Stored, b + 1, NoDate)) >>
              IN  /\ all.total_files = SumOfParts(history, "total_files")
                  /\ all.total_pages = SumOfParts(history, "total_pages")
                  /\ all.total_cost = SumOfParts(history, "total_cost")
                  /\ SumOver(days, "files") = SumOfParts(daily, "files")
                  /\ SumOver(days, "pages") = SumOfParts(daily, "pages")
                  /\ SumOver(days, "cost") = SumOfParts(daily, "cost")
        /\ SumOver(days, "files") = Len(Stored)
        /\ SumOver(days, "pages") = all.total_pages
        /\ SumOver(days, "cost") = all.total_cost
        /\ \A i \in 1 .. Len(Stored) :
              Cardinality({ k \in 1 .. Len(days) :
                              days[k].date = Stored[i].timestamp }) = 1

\* C15, its case: of three records on two days, a range query has answered
\* the one record of its range.
C15_PartAnswered ==
    /\ Len(Stored) = 3
    /\ Stored[1].timestamp # Stored[3].timestamp
    /\ response[1].op = "history"
    /\ response[1].total_files = 1
    /\ response[1].total_pages = 7

\* the names under which the persisted records keep their files
SavedAs(uploads) == { uploads[i].saved_as : i \in 1 .. Len(uploads) }

\* C16: in the serial server with successful saves, whenever no request is in
\* flight, the stored files are exactly the files the persisted records name,
\* and no two records name the same file.
C16_FilesMatchRecords ==
    pc[1] = "idle" =>
        /\ outputDir = SavedAs(Stored)
        /\ Cardinality(SavedAs(Stored)) = Len(Stored)

\* C16, its case: an upload of a file over the size limit and of an accepted
\* file has been answered: one file is stored, the accepted one's.
C16_TooLargeRemoved ==
    /\ response[1].op = "upload"
    /\ response[1].status = 200
    /\ \E k \in 1 .. Len(response[1].results) :
          response[1].results[k].error = "Fisier prea mare"
    /\ \E k \in 1 .. Len(response[1].results) :
          response[1].results[k].error = ""
    /\ Cardinality(outputDir) = 1

\* C17: the step that answers an upload request with 400 leaves the stored
\* files, the id source, the persisted document and the workbook as they
\* were, and an upload enters its loop only with 1 to MAX_FILES files.
C17_BadBatchTouchesNothing ==
    [][\A p \in Procs :
          /\ (/\ Moves(p, "idle", "idle")
              /\ response'[p].op = "upload"
              /\ response'[p].status = 400)
                => UNCHANGED <<historyFile, excelFile, outputDir, nextId>>
          /\ Moves(p, "idle", "upload_loop")
                => /\ local'[p].nfiles >= 1
                   /\ local'[p].nfiles <= 20
      ]_vars

\* C17, its case: an upload of more than MAX_FILES files has been answered
\* with 400 and the store still holds its one record and the record's file.
C17_TooManyRejected ==
    /\ response[1] = Error("upload", 400, "Maxim fisiere permise")
    /\ Len(Stored) = 1
    /\ Cardinality(outputDir) = 1
    /\ excelFile = Workbook(DocOf(historyFile))

====
